---- MODULE Spec2Model ----
(***************************************************************************)
(* Model of TsidFactory (src/src/factory/mod.rs): the construction of a    *)
(* factory from (node_bits, node), and create(), which reads the clock,    *)
(* advances the counter and packs time, node and counter into one word.    *)
(*                                                                         *)
(* A clock reading is kept as whole milliseconds relative to the TSID      *)
(* epoch (SystemTime::now() minus TSID_EPOCH_MILLIS); a negative value is  *)
(* a clock before the epoch.  Each call reads the clock once, and the      *)
(* reading is the call's input: any reading may follow any other.          *)
(* Integers here are below 2^31, so readings stay below 2^9 and a packed   *)
(* identifier below 2^31; the u64 truncation of `time << 22` (times of     *)
(* 2^42 ms and more) is out of range.                                      *)
(***************************************************************************)
EXTENDS Integers, Sequences, FiniteSets, TLC

\* ---------------------------------------------------------------- bounds
\* Highest clock reading (ms since the TSID epoch) the clock reaches.
MaxTime == 3
\* Number of create calls made on one factory.
MaxCalls == 4

\* ------------------------------------------------------------- constants
TIME_BITS == 42
RANDOM_BITS == 64 - TIME_BITS
\* 0x003fffff
RANDOM_MASK == 4194303
\* width of `node: u32`, the type in which `node << counter_bits` is computed
U32_BITS == 32

\* The factories of the model; specification Spec uses the first one only.
Factories == {1, 2}
\* No identifier (nothing returned yet, or the call panicked).
NoId == 0 - 1
\* No clock reading yet.
NoRead == 0 - 2

VARIABLES
    built,   \* built[f]: with_node_bits has returned factory f
    fac,     \* fac[f]: the fields of struct TsidFactory
    call,    \* call[f]: the last call on f: operation, clock read, outcome
    calls,   \* calls[f]: the number of create calls made on f
    hist,    \* hist[f]: what f's create calls have returned and read so far
             \* (kept by SpecRecorded only)
    thread   \* thread[c]: where caller c stands in a create it runs on the
             \* shared factory, and its local time_millis (SpecShared only)

vars == <<built, fac, call, calls, hist, thread>>

\* ------------------------------------------------------- bit operations
\* x >> n on an unsigned integer
Shr(x, n) == x \div (2 ^ n)

\* a & b on unsigned integers
RECURSIVE BitAnd(_, _)
BitAnd(a, b) ==
    IF a = 0 \/ b = 0 THEN 0
    ELSE (a % 2) * (b % 2) + 2 * BitAnd(a \div 2, b \div 2)

\* a | b on unsigned integers
RECURSIVE BitOr(_, _)
BitOr(a, b) ==
    IF a = 0 THEN b
    ELSE IF b = 0 THEN a
    ELSE (IF a % 2 = 1 \/ b % 2 = 1 THEN 1 ELSE 0) + 2 * BitOr(a \div 2, b \div 2)

\* x << n computed in u32: the bits shifted past bit 31 are dropped.  It is
\* (x * 2^n) mod 2^32, written so that no intermediate value passes 2^31;
\* for n < 2 the model's x (below 2^23) loses no bit.
ShlU32(x, n) ==
    IF n < 2 THEN x * (2 ^ n)
    ELSE (x % (2 ^ (U32_BITS - n))) * (2 ^ n)

\* (time << RANDOM_BITS) as u64, for time below 2^42 (no bit is dropped)
ShlTime(time) == time * (2 ^ RANDOM_BITS)

\* ----------------------------------------------------------- the clock
\* duration_since(tsid_epoch) is Err, and expect() panics, when now() is
\* before the epoch.
ClockFault(sysclock) == sysclock < 0

\* get_time_millis_in_tsid_epoch: the reading, or a panic
get_time_millis_in_tsid_epoch(sysclock) ==
    [panic |-> ClockFault(sysclock),
     millis |-> IF ClockFault(sysclock) THEN NoRead ELSE sysclock]

\* -------------------------------------------------------- construction
CounterBitsOf(node_bits) == RANDOM_BITS - node_bits
CounterMaskOf(node_bits) == Shr(RANDOM_MASK, node_bits)
\* Mutant of NodeMaskOf: the mask is shifted by the wrong width.
NodeMaskOfSwapped(counter_bits) == Shr(RANDOM_MASK, RANDOM_BITS - counter_bits)
NodeMaskOf(counter_bits) == Shr(RANDOM_MASK, counter_bits)

\* with_node_bits(node_bits, node), with the random draw and the clock it reads
with_node_bits(node_bits, node, draw, millis) ==
    [node_bits       |-> node_bits,
     counter_bits    |-> CounterBitsOf(node_bits),
     counter_mask    |-> CounterMaskOf(node_bits),
     node_mask       |-> NodeMaskOf(CounterBitsOf(node_bits)),
     last_time_value |-> millis,
     counter         |-> BitAnd(draw, CounterMaskOf(node_bits)),
     node            |-> node]

\* Mutant of default: the default factory reserves one bit for the node.
defaultOneNodeBit(draw, millis) == with_node_bits(1, 0, draw, millis)

\* `impl Default for TsidFactory`: `TsidFactory::with_node_bits(0, 0)`
default(draw, millis) == with_node_bits(0, 0, draw, millis)

\* `TsidFactory::new()`: `Default::default()`
new(draw, millis) == default(draw, millis)

\* The fields before construction (no factory exists).
NoFactory ==
    [node_bits |-> 0, counter_bits |-> 0, counter_mask |-> 0, node_mask |-> 0,
     last_time_value |-> 0, counter |-> 0, node |-> 0]

\* ----------------------------------------------------------- create()
\* Mutant of MaskCounter: the mask after the increment is left out.
MaskCounterNone(counter, counter_mask) == counter

\* `self.counter = self.counter & self.counter_mask`
MaskCounter(counter, counter_mask) == BitAnd(counter, counter_mask)

\* `if self.counter >> self.counter_bits > 0`
Carry(counter, counter_bits) == Shr(counter, counter_bits) > 0

\* Mutant of SameOrEarlier: a reading equal to last_time_value counts as a
\* fresh millisecond.
SameOrEarlierStrict(time_millis, last_time_value) == time_millis < last_time_value

\* `if time_millis <= self.last_time_value`
SameOrEarlier(time_millis, last_time_value) == time_millis <= last_time_value

\* `self.last_time_value = time_millis`
NextLastTime(time_millis, last_time_value) == time_millis

\* Mutant of Bump: the carry skips a millisecond.
BumpTwo(time_millis) == time_millis + 2

\* `time_millis += 1` (the carry)
Bump(time_millis) == time_millis + 1

\* Mutant of get_time_and_advance_counter: the masked counter is written to
\* counter_mask instead of counter.
get_time_and_clobber_mask(self, millis, draw) ==
    LET stalled == SameOrEarlier(millis, self.last_time_value)
        bumped  == IF stalled THEN self.counter + 1 ELSE draw
        carry   == stalled /\ Carry(bumped, self.counter_bits)
        time_millis == IF carry THEN Bump(millis) ELSE millis
    IN [self |-> [self EXCEPT
                    !.counter_mask = MaskCounter(bumped, self.counter_mask),
                    !.last_time_value = NextLastTime(time_millis, self.last_time_value)],
        time  |-> time_millis,
        carry |-> carry]

\* get_time_and_advance_counter, after the clock was read without a panic
get_time_and_advance_counter(self, millis, draw) ==
    LET stalled == SameOrEarlier(millis, self.last_time_value)
        bumped  == IF stalled THEN self.counter + 1 ELSE draw
        carry   == stalled /\ Carry(bumped, self.counter_bits)
        time_millis == IF carry THEN Bump(millis) ELSE millis
    IN [self |-> [self EXCEPT
                    !.counter = MaskCounter(bumped, self.counter_mask),
                    !.last_time_value = NextLastTime(time_millis, self.last_time_value)],
        time  |-> time_millis,
        carry |-> carry]

\* Mutant of NodeVal: the node is not shifted above the counter.
NodeValUnshifted(node, counter_bits) == node

\* `(self.node << self.counter_bits) as u64`
NodeVal(node, counter_bits) == ShlU32(node, counter_bits)

\* `time_val | node_val | counter_val`
Pack(time_val, node_val, counter_val) == BitOr(BitOr(time_val, node_val), counter_val)

\* Mutant of create: the clock fault is noticed only after the counter and
\* last_time_value were updated.
createFaultLate(self, sysclock, draw) ==
    LET clock == get_time_millis_in_tsid_epoch(sysclock)
        adv   == get_time_and_advance_counter(self, IF clock.panic THEN 0 ELSE clock.millis, draw)
    IN [panic |-> clock.panic,
        self  |-> adv.self,
        id    |-> IF clock.panic THEN NoId
                  ELSE Pack(ShlTime(adv.time),
                            NodeVal(adv.self.node, adv.self.counter_bits),
                            BitAnd(adv.self.counter, adv.self.counter_mask)),
        carry |-> adv.carry]

\* create: the new fields and the identifier returned, or a panic that
\* leaves the fields as they were
create(self, sysclock, draw) ==
    LET clock == get_time_millis_in_tsid_epoch(sysclock)
        adv   == get_time_and_advance_counter(self, clock.millis, draw)
    IN IF clock.panic
       THEN [panic |-> TRUE, self |-> self, id |-> NoId, carry |-> FALSE]
       ELSE [panic |-> FALSE,
             self  |-> adv.self,
             id    |-> Pack(ShlTime(adv.time),
                            NodeVal(adv.self.node, adv.self.counter_bits),
                            BitAnd(adv.self.counter, adv.self.counter_mask)),
             carry |-> adv.carry]

\* ------------------------------------------------- fields of an identifier
\* bits [63:22]
TimeField(id) == Shr(id, RANDOM_BITS)
\* the node_bits bits above the counter
NodeField(id, self) == Shr(id, self.counter_bits) % (2 ^ self.node_bits)
\* the low counter_bits bits
CounterField(id, self) == id % (2 ^ self.counter_bits)

\* ------------------------------------------------------------- inputs
NodeBitsRange == 0..RANDOM_BITS
\* node values: the smallest, the widest that fits, and one bit too wide
Nodes(node_mask) == {0, node_mask, node_mask + 1}
\* values of rng.next_u64(): around the top of the counter field, and one
\* past it (which the mask brings back to 0)
Draws(counter_mask) == {d \in {counter_mask - 1, counter_mask, counter_mask + 1} : d >= 0}

\* -------------------------------------------------------------- state
\* What SystemTime::now() may return, relative to the epoch: a time before
\* the epoch, and the milliseconds 0..MaxTime.
ClockReadings == (0 - 1)..MaxTime

NoCall == [op |-> "none", clock |-> NoRead, panic |-> FALSE, id |-> NoId, carry |-> FALSE]

\* The callers that share one factory in SpecShared.
Callers == {1, 2}

NoThread ==
    [pc          |-> "idle",   \* the statement the caller executes next
     clock       |-> NoRead,   \* what SystemTime::now() returned to it
     time_millis |-> NoRead,   \* its local `time_millis`
     loaded      |-> NoRead,   \* the counter it loaded for `self.counter += 1`
     carry       |-> FALSE,    \* it took the `time_millis += 1` branch
     id          |-> NoId,     \* the identifier it returned
     steps       |-> 0,        \* the statements it has executed
     alone       |-> TRUE]     \* no other caller was inside create meanwhile

NoHist ==
    [emitted  |-> {},      \* every identifier returned
     dup      |-> FALSE,   \* some identifier was returned twice
     clockOk  |-> TRUE,    \* no call read a clock lower than the call before
     exhAt    |-> NoRead,  \* the clock reading of the last counter exhaustion
     exhOk    |-> TRUE]    \* no two exhaustions at one clock reading

Init ==
    /\ built = [f \in Factories |-> FALSE]
    /\ fac = [f \in Factories |-> NoFactory]
    /\ call = [f \in Factories |-> NoCall]
    /\ calls = [f \in Factories |-> 0]
    /\ hist = [f \in Factories |-> NoHist]
    /\ thread = [c \in Callers |-> NoThread]

\* TsidFactory::with_node_bits(node_bits, node), called when the clock reads
\* sysclock; a panic leaves no factory behind.
Construct(f, node_bits, node, draw, sysclock) ==
    LET clock == get_time_millis_in_tsid_epoch(sysclock) IN
    /\ call[f].op = "none"
    /\ built' = [built EXCEPT ![f] = ~clock.panic]
    /\ fac' = [fac EXCEPT ![f] =
                 IF clock.panic THEN NoFactory
                 ELSE with_node_bits(node_bits, node, draw, clock.millis)]
    /\ call' = [call EXCEPT ![f] =
                  [NoCall EXCEPT !.op = "new", !.clock = sysclock, !.panic = clock.panic]]
    /\ UNCHANGED <<calls, hist, thread>>

\* TsidFactory::new() or TsidFactory::default(), called when the clock
\* reads sysclock; a panic leaves no factory behind.
ConstructZeroArg(f, ctor, draw, sysclock) ==
    LET clock == get_time_millis_in_tsid_epoch(sysclock) IN
    /\ call[f].op = "none"
    /\ built' = [built EXCEPT ![f] = ~clock.panic]
    /\ fac' = [fac EXCEPT ![f] =
                 IF clock.panic THEN NoFactory
                 ELSE IF ctor = "new" THEN new(draw, clock.millis)
                 ELSE default(draw, clock.millis)]
    /\ call' = [call EXCEPT ![f] =
                  [NoCall EXCEPT !.op = "new", !.clock = sysclock, !.panic = clock.panic]]
    /\ UNCHANGED <<calls, hist, thread>>

\* create can be called on f: f was constructed, no call on it has panicked
\* (a panic ends the use of the factory), and fewer than MaxCalls calls were
\* made.
Callable(f) == built[f] /\ ~call[f].panic /\ calls[f] < MaxCalls

\* rng.next_u64() is called in the else branch only: the values to draw
\* from when create runs on `self` at clock reading sysclock.
DrawsAt(self, sysclock) ==
    IF ClockFault(sysclock) \/ SameOrEarlier(sysclock, self.last_time_value)
    THEN {0}
    ELSE Draws(self.counter_mask)

\* TsidFactory::create(&mut self), called when the clock reads sysclock: the
\* fields after the call and what the call returned.
Call(f, out, sysclock) ==
    /\ fac' = [fac EXCEPT ![f] = out.self]
    /\ call' = [call EXCEPT ![f] =
                  [op |-> "create", clock |-> sysclock, panic |-> out.panic,
                   id |-> out.id, carry |-> out.carry]]
    /\ calls' = [calls EXCEPT ![f] = calls[f] + 1]
    /\ UNCHANGED <<built, thread>>

\* The history of what f's create calls returned and read, kept for the
\* statements about whole sequences of calls.
Record(f, out, sysclock) ==
    LET h == hist[f] IN
    hist' = [hist EXCEPT ![f] =
               IF out.panic THEN h
               ELSE [emitted |-> h.emitted \cup {out.id},
                     dup     |-> h.dup \/ out.id \in h.emitted,
                     clockOk |-> h.clockOk /\ sysclock >= call[f].clock,
                     exhAt   |-> IF out.carry THEN sysclock ELSE h.exhAt,
                     exhOk   |-> h.exhOk /\ ~(out.carry /\ h.exhAt = sysclock)]]

Create(f, sysclock) ==
    \E draw \in DrawsAt(fac[f], sysclock) :
        \E out \in {create(fac[f], sysclock, draw)} :
            Call(f, out, sysclock) /\ UNCHANGED hist

CreateRecorded(f, sysclock) ==
    \E draw \in DrawsAt(fac[f], sysclock) :
        \E out \in {create(fac[f], sysclock, draw)} :
            Call(f, out, sysclock) /\ Record(f, out, sysclock)

\* ------------------------------------------------- one factory (Spec)
ConstructOne ==
    \E node_bits \in NodeBitsRange, sysclock \in ClockReadings :
        \E node \in Nodes(NodeMaskOf(CounterBitsOf(node_bits))) :
            \E draw \in Draws(CounterMaskOf(node_bits)) :
                Construct(1, node_bits, node, draw, sysclock)

CreateOne ==
    /\ Callable(1)
    /\ \E sysclock \in ClockReadings : Create(1, sysclock)

Next == ConstructOne \/ CreateOne

Spec == Init /\ [][Next]_vars

\* ------------------------- one factory, with its history (SpecRecorded)
CreateOneRecorded ==
    /\ Callable(1)
    /\ \E sysclock \in ClockReadings : CreateRecorded(1, sysclock)

NextRecorded == ConstructOne \/ CreateOneRecorded

SpecRecorded == Init /\ [][NextRecorded]_vars

\* ------------- one factory from a zero-argument constructor (SpecDefault)
Constructors == {"new", "default"}

ConstructDefault ==
    \E ctor \in Constructors, sysclock \in ClockReadings :
        \E draw \in Draws(RANDOM_MASK) :
            ConstructZeroArg(1, ctor, draw, sysclock)

NextDefault == ConstructDefault \/ CreateOne

SpecDefault == Init /\ [][NextDefault]_vars

\* ---------- two factories with the same node_bits, invoked at one instant
\* (SpecPair).  with_node_bits leaves any counter within the mask and any
\* clock reading in last_time_value, so the two fresh factories stand for
\* any two states of factories with these node_bits.

\* The second factory is built with the node_bits of the first and another
\* node value.
ConstructSecond ==
    /\ built[1]
    /\ call[1].op = "new"
    /\ \E sysclock \in ClockReadings :
           \E node \in Nodes(fac[1].node_mask) \ {fac[1].node} :
               \E draw \in Draws(fac[1].counter_mask) :
                   Construct(2, fac[1].node_bits, node, draw, sysclock)

\* The first factory is invoked at some instant.
CreateFirst ==
    /\ built[1] /\ built[2]
    /\ call[1].op = "new"
    /\ \E sysclock \in ClockReadings : Create(1, sysclock)

\* The second factory is invoked at the same instant: it reads the clock
\* that the first one read.
CreateSecond ==
    /\ built[2]
    /\ call[1].op = "create" /\ call[2].op = "new"
    /\ Create(2, call[1].clock)

NextPair == ConstructOne \/ ConstructSecond \/ CreateFirst \/ CreateSecond

SpecPair == Init /\ [][NextPair]_vars

\* ------- two callers inside create on one factory, statement by statement
\* (SpecShared).  `create(&mut self)` has no lock ("naive implementation
\* without thread safety"): when two callers reach the same factory without
\* mutual exclusion, the statements of get_time_and_advance_counter and of
\* create interleave.  Each caller runs one create on factory 1, which was
\* just built: with_node_bits leaves any counter within the mask and any
\* clock reading in last_time_value.

\* The factory the callers share.
Shared == CHOOSE f \in Factories : \A g \in Factories : f <= g

\* The bit splits of the shared factory: the default, the 8 node bits of
\* the documentation, a counter of one bit and no counter at all (the
\* statements of create do not depend on the split otherwise).
SharedNodeBits == {0, 8, RANDOM_BITS - 1, RANDOM_BITS}

ConstructShared ==
    \E node_bits \in SharedNodeBits, sysclock \in ClockReadings :
        \E node \in {n \in Nodes(NodeMaskOf(CounterBitsOf(node_bits))) :
                        n <= NodeMaskOf(CounterBitsOf(node_bits))} :
            \E draw \in Draws(CounterMaskOf(node_bits)) :
                Construct(Shared, node_bits, node, draw, sysclock)

\* What SystemTime::now() may return to a caller, relative to the
\* last_time_value it will be compared with: a time before the epoch, an
\* earlier millisecond (rollback), the same millisecond, a later one.
SharedReadings(last_time_value) ==
    {r \in {0 - 1, last_time_value - 1, last_time_value, last_time_value + 1} :
        r >= 0 - 1}

\* Caller c is inside create.
Running(c) == thread[c].pc \notin {"idle", "done", "panicked"}

\* Mutant of Incr: the increment is left out.
IncrNone(counter) == counter

\* `self.counter += 1`: the value stored
Incr(counter) == counter + 1

\* Mutant of AfterCarry: on exhaustion the caller waits for the next
\* millisecond by repeating the check.
AfterCarrySpin(carry) == IF carry THEN "carry" ELSE "mask"

\* The statement after `if self.counter >> self.counter_bits > 0 { ... }`:
\* the mask of line 88, whether the carry was taken or not.
AfterCarry(carry) == "mask"

\* Caller c executes one statement: its new record, with whatever the
\* statement wrote into the factory.
Step(c, pc, self) ==
    /\ thread' = [thread EXCEPT ![c] = [pc EXCEPT !.steps = @ + 1]]
    /\ fac' = [fac EXCEPT ![Shared] = self]
    /\ UNCHANGED <<built, call, calls, hist>>

\* `let mut time_millis = self.get_time_millis_in_tsid_epoch()`: the caller
\* enters create and reads the clock; a clock before the epoch panics.
ReadClock(c, sysclock) ==
    LET clock == get_time_millis_in_tsid_epoch(sysclock) IN
    /\ built[Shared] /\ call[Shared].op = "new"
    /\ thread[c].pc = "idle"
    /\ thread' = [d \in Callers |->
                    IF d = c
                    THEN [thread[c] EXCEPT
                            !.pc = IF clock.panic THEN "panicked" ELSE "compare",
                            !.clock = sysclock,
                            !.time_millis = IF clock.panic THEN NoRead ELSE clock.millis,
                            !.steps = @ + 1,
                            !.alone = \A e \in Callers \ {c} : ~Running(e)]
                    ELSE [thread[d] EXCEPT !.alone = @ /\ ~Running(d)]]
    /\ UNCHANGED <<built, fac, call, calls, hist>>

\* `if time_millis <= self.last_time_value`
Compare(c) ==
    /\ thread[c].pc = "compare"
    /\ Step(c, [thread[c] EXCEPT
                  !.pc = IF SameOrEarlier(thread[c].time_millis, fac[Shared].last_time_value)
                         THEN "load" ELSE "reseed"],
            fac[Shared])

\* `self.counter += 1`, the load
LoadCounter(c) ==
    /\ thread[c].pc = "load"
    /\ Step(c, [thread[c] EXCEPT !.pc = "store", !.loaded = fac[Shared].counter],
            fac[Shared])

\* `self.counter += 1`, the store
StoreCounter(c) ==
    /\ thread[c].pc = "store"
    /\ Step(c, [thread[c] EXCEPT !.pc = "carry"],
            [fac[Shared] EXCEPT !.counter = Incr(thread[c].loaded)])

\* `if self.counter >> self.counter_bits > 0 { time_millis += 1; }`
CheckCarry(c) ==
    LET carry == Carry(fac[Shared].counter, fac[Shared].counter_bits) IN
    /\ thread[c].pc = "carry"
    /\ Step(c, [thread[c] EXCEPT
                  !.pc = AfterCarry(carry),
                  !.carry = carry,
                  !.time_millis = IF carry THEN Bump(@) ELSE @],
            fac[Shared])

\* `self.counter = rng.next_u64()`
Reseed(c, draw) ==
    /\ thread[c].pc = "reseed"
    /\ Step(c, [thread[c] EXCEPT !.pc = "mask"],
            [fac[Shared] EXCEPT !.counter = draw])

\* `self.counter = self.counter & self.counter_mask`
Mask(c) ==
    /\ thread[c].pc = "mask"
    /\ Step(c, [thread[c] EXCEPT !.pc = "write"],
            [fac[Shared] EXCEPT
               !.counter = MaskCounter(@, fac[Shared].counter_mask)])

\* `self.last_time_value = time_millis`
WriteLastTime(c) ==
    /\ thread[c].pc = "write"
    /\ Step(c, [thread[c] EXCEPT !.pc = "pack"],
            [fac[Shared] EXCEPT
               !.last_time_value = NextLastTime(thread[c].time_millis, @)])

\* create, after get_time_and_advance_counter returned: the identifier is
\* packed from the local time and the node and counter the factory holds now.
PackId(c) ==
    /\ thread[c].pc = "pack"
    /\ Step(c, [thread[c] EXCEPT
                  !.pc = "done",
                  !.id = Pack(ShlTime(thread[c].time_millis),
                              NodeVal(fac[Shared].node, fac[Shared].counter_bits),
                              BitAnd(fac[Shared].counter, fac[Shared].counter_mask))],
            fac[Shared])

\* The next statement of caller c.
Statement(c) ==
    \/ \E sysclock \in SharedReadings(fac[Shared].last_time_value) :
           ReadClock(c, sysclock)
    \/ Compare(c)
    \/ LoadCounter(c)
    \/ StoreCounter(c)
    \/ CheckCarry(c)
    \/ \E draw \in Draws(fac[Shared].counter_mask) : Reseed(c, draw)
    \/ Mask(c)
    \/ WriteLastTime(c)
    \/ PackId(c)

NextShared == ConstructShared \/ \E c \in Callers : Statement(c)

SpecShared == Init /\ [][NextShared]_vars

\* ------ two factories side by side, invoked in any order (SpecBeside)
\* create is called on either factory, fewer than MaxCalls calls in all.
CreateEither ==
    /\ built[1] /\ built[2]
    /\ calls[1] + calls[2] + 1 < MaxCalls
    /\ \E f \in Factories :
           /\ Callable(f)
           /\ \E sysclock \in ClockReadings : Create(f, sysclock)

NextBeside == ConstructShared \/ ConstructSecond \/ CreateEither

SpecBeside == Init /\ [][NextBeside]_vars

\* --------- one caller, statement by statement, call after call (SpecSolo)
\* The caller of SpecSolo.
Solo == CHOOSE c \in Callers : \A d \in Callers : c <= d

\* The caller has returned from create and calls it again, up to MaxCalls
\* calls in all.
Again(c) ==
    /\ thread[c].pc = "done"
    /\ calls[Shared] + 1 < MaxCalls
    /\ thread' = [thread EXCEPT ![c] = NoThread]
    /\ calls' = [calls EXCEPT ![Shared] = @ + 1]
    /\ UNCHANGED <<built, fac, call, hist>>

NextSolo == ConstructShared \/ Statement(Solo) \/ Again(Solo)

SpecSolo == Init /\ [][NextSolo]_vars

\* ================================================================ claims
\* The last call on f was a create that returned an identifier.
Returned(f) == call[f].op = "create" /\ ~call[f].panic

\* The node value fits in the node_bits bits of its field.
Fits(self) == self.node <= self.node_mask

\* This step is a create call on f.
CreateStep(f) == calls'[f] = calls[f] + 1

\* C1 (SpecRecorded).  Monotonicity: while no call has read a clock lower
\* than the call before it and no two counter exhaustions fell in the same
\* millisecond, on a factory whose node fits, every create returns a value
\* greater than or equal to the value the previous create returned.
C1_Monotonic ==
    [][(/\ Returned(1)
        /\ CreateStep(1)
        /\ ~call'[1].panic
        /\ hist'[1].clockOk
        /\ hist'[1].exhOk
        /\ Fits(fac[1]))
       => call'[1].id >= call[1].id]_vars

\* C2 (SpecRecorded).  Collision-freedom: while the clock readings of the
\* calls are non-decreasing, no identifier is returned twice by one factory
\* (stated for a node that fits, so that the packing of an oversized node
\* plays no part).
C2_NoCollision == (hist[1].clockOk /\ Fits(fac[1])) => ~hist[1].dup

\* C3.  last_time_value never decreases from one create call to the next,
\* whatever the clock reads, and neither does the timestamp field of the
\* identifiers returned (for a node that fits).
C3_LastTimeNeverDecreases ==
    [][\A f \in Factories :
        (built[f] /\ CreateStep(f)) =>
            /\ fac'[f].last_time_value >= fac[f].last_time_value
            /\ (Returned(f) /\ ~call'[f].panic /\ Fits(fac[f]))
                   => TimeField(call'[f].id) >= TimeField(call[f].id)]_vars

\* C4.  Counter exhaustion: a create that reads a clock (at or after the
\* epoch) not later than last_time_value, with counter = counter_mask, does
\* not fail, moves last_time_value to its previous value plus 1, returns
\* that timestamp (for a node that fits) and a counter field within
\* counter_mask.
C4_ExhaustionAdvancesLastTime ==
    [][\A f \in Factories :
        (/\ built[f]
         /\ CreateStep(f)
         /\ call'[f].clock >= 0
         /\ call'[f].clock <= fac[f].last_time_value
         /\ fac[f].counter = fac[f].counter_mask)
        => /\ ~call'[f].panic
           /\ fac'[f].last_time_value = fac[f].last_time_value + 1
           /\ Fits(fac[f]) => TimeField(call'[f].id) = fac[f].last_time_value + 1
           /\ CounterField(call'[f].id, fac[f]) <= fac[f].counter_mask]_vars

\* C5.  Field round-trip: for a node that fits in node_bits, the identifier
\* a create returns is time*2^22 + node*2^counter_bits + counter, with the
\* time and counter the factory holds after the call; its bits [63:22] are
\* the time, its node field is node & node_mask and its low counter_bits
\* bits are the counter.
C5_FieldRoundTrip ==
    \A f \in Factories :
        (Returned(f) /\ Fits(fac[f])) =>
            LET self == fac[f]
                id   == call[f].id
            IN /\ id = self.last_time_value * 4194304
                        + self.node * (2 ^ self.counter_bits) + self.counter
               /\ TimeField(id) = self.last_time_value
               /\ NodeField(id, self) = BitAnd(self.node, self.node_mask)
               /\ CounterField(id, self) = self.counter

\* A create returned on a factory with a non-empty node field and counter
\* field, a node and a counter above 0 and a time above 0.
C5_Witness ==
    /\ Returned(1) /\ Fits(fac[1])
    /\ fac[1].node_bits > 0 /\ fac[1].counter_bits > 0
    /\ fac[1].node > 0 /\ fac[1].counter > 0 /\ fac[1].last_time_value > 0

\* C6.  Oversized node truncation: for every node value, also one wider
\* than node_bits, the high 42 bits of a returned identifier are the
\* timestamp of the call and its node field is node & node_mask.
C6_NodeTruncated ==
    \A f \in Factories :
        Returned(f) =>
            /\ TimeField(call[f].id) = fac[f].last_time_value
            /\ NodeField(call[f].id, fac[f]) = BitAnd(fac[f].node, fac[f].node_mask)

\* C7.  Construction derives the bit split: counter_bits = 22 - node_bits,
\* counter_mask = 0x3FFFFF >> node_bits = 2^counter_bits - 1, node_mask =
\* 2^node_bits - 1, and 42 + counter_bits + node_bits = 64 (node_bits 8
\* gives 14, 0x3FFF, 0xFF; node_bits 0 gives 22, 0x3FFFFF, 0).
C7_BitSplit ==
    \A f \in Factories :
        built[f] =>
            LET self == fac[f] IN
            /\ self.node_bits \in 0..22
            /\ self.counter_bits = 22 - self.node_bits
            /\ self.counter_mask = 4194303 \div (2 ^ self.node_bits)
            /\ self.counter_mask = (2 ^ self.counter_bits) - 1
            /\ self.node_mask = (2 ^ self.node_bits) - 1
            /\ 42 + self.counter_bits + self.node_bits = 64
            /\ self.node_bits = 8 =>
                   self.counter_bits = 14 /\ self.counter_mask = 16383 /\ self.node_mask = 255
            /\ self.node_bits = 0 =>
                   self.counter_bits = 22 /\ self.counter_mask = 4194303 /\ self.node_mask = 0

\* A factory was just built with node_bits 8.
C7_Witness == built[1] /\ call[1].op = "new" /\ fac[1].node_bits = 8

\* C8.  In every state of a built factory, counter <= counter_mask and
\* node_bits + counter_bits = 22.
C8_CounterWithinMask ==
    \A f \in Factories :
        built[f] =>
            /\ fac[f].counter <= fac[f].counter_mask
            /\ fac[f].node_bits + fac[f].counter_bits = 22

\* A create has just gone through the exhaustion branch, after an earlier
\* create.
C8_Witness == Returned(1) /\ call[1].carry /\ calls[1] > 1

\* C9 as stated (SpecPair).  Two factories with the same node_bits and
\* different node values, each having run create at the same clock reading,
\* returned identifiers whose node fields differ and whose timestamp fields
\* differ by at most one.
C9_DifferentNodes ==
    (/\ Returned(1) /\ Returned(2)
     /\ fac[1].node_bits = fac[2].node_bits
     /\ fac[1].node # fac[2].node
     /\ call[1].clock = call[2].clock)
    => /\ NodeField(call[1].id, fac[1]) # NodeField(call[2].id, fac[2])
       /\ TimeField(call[1].id) - TimeField(call[2].id) \in {0 - 1, 0, 1}

\* C9 as amended (SpecPair): the same, for two node values that both fit in
\* node_bits.
C9_DifferentFittingNodes ==
    (/\ Returned(1) /\ Returned(2)
     /\ fac[1].node_bits = fac[2].node_bits
     /\ fac[1].node # fac[2].node
     /\ Fits(fac[1]) /\ Fits(fac[2])
     /\ call[1].clock = call[2].clock)
    => /\ NodeField(call[1].id, fac[1]) # NodeField(call[2].id, fac[2])
       /\ TimeField(call[1].id) - TimeField(call[2].id) \in {0 - 1, 0, 1}

\* Both factories returned at the same clock reading, their nodes fit and
\* differ, and one timestamp is a millisecond ahead of the other (one of
\* the two exhausted its counter).
C9_Witness ==
    /\ Returned(1) /\ Returned(2)
    /\ fac[1].node # fac[2].node
    /\ Fits(fac[1]) /\ Fits(fac[2])
    /\ call[1].clock = call[2].clock
    /\ TimeField(call[1].id) = TimeField(call[2].id) + 1

\* C10.  Clock fault: a construction or a create that reads a clock before
\* the epoch panics, and only such a call does; it returns no identifier, a
\* panicked construction leaves no factory, and a panicked create leaves
\* every field of the factory, counter and last_time_value included, as it
\* was.
C10_ClockFaultFailsFast ==
    /\ [](\A f \in Factories :
            /\ call[f].op # "none" => (call[f].panic <=> call[f].clock < 0)
            /\ call[f].panic => call[f].id = NoId
            /\ (call[f].op = "new" /\ call[f].panic) => ~built[f])
    /\ [][\A f \in Factories :
            (CreateStep(f) /\ call'[f].panic) => fac'[f] = fac[f]]_vars

\* A create on a built factory read a clock before the epoch and panicked.
C10_Witness == built[1] /\ call[1].op = "create" /\ call[1].panic /\ call[1].clock < 0

\* C13.  Same-millisecond increment: a create that reads a clock equal to
\* last_time_value, with counter < counter_mask, does not fail, makes the
\* counter exactly counter + 1, leaves last_time_value as it was, and
\* returns exactly the identifier the previous create returned plus 1.
C13_SameMillisIncrement ==
    [][\A f \in Factories :
        (/\ built[f]
         /\ CreateStep(f)
         /\ call'[f].clock = fac[f].last_time_value
         /\ fac[f].counter < fac[f].counter_mask)
        => /\ ~call'[f].panic
           /\ fac'[f].counter = fac[f].counter + 1
           /\ fac'[f].last_time_value = fac[f].last_time_value
           /\ Returned(f) => /\ call'[f].id = call[f].id + 1
                             /\ call'[f].id > call[f].id]_vars

\* Two creates in a row read the millisecond held in last_time_value and
\* took the increment branch: the counter stands at 2, which no construction
\* and no reseed leaves in a counter field wider than two bits (they leave
\* counter_mask - 1, counter_mask or 0).
C13_Witness ==
    /\ Returned(1) /\ ~call[1].carry
    /\ calls[1] >= 2
    /\ call[1].clock = fac[1].last_time_value
    /\ fac[1].counter_mask > 4
    /\ fac[1].counter = 2

\* C14.  Fresh-millisecond reseed: a create that reads a clock strictly
\* greater than last_time_value does not fail, makes last_time_value exactly
\* that reading, returns an identifier whose timestamp field is that
\* reading, and leaves in counter a fresh draw masked to counter_bits: a
\* value in 0..counter_mask that does not depend on the counter before.
C14_FreshMillisReseed ==
    [][\A f \in Factories :
        (/\ built[f]
         /\ CreateStep(f)
         /\ call'[f].clock > fac[f].last_time_value)
        => /\ ~call'[f].panic
           /\ ~call'[f].carry
           /\ fac'[f].last_time_value = call'[f].clock
           /\ TimeField(call'[f].id) = call'[f].clock
           /\ fac'[f].counter \in 0..fac[f].counter_mask
           /\ \E draw \in Draws(fac[f].counter_mask) :
                  fac'[f].counter = BitAnd(draw, fac[f].counter_mask)]_vars

\* C15.  For every create that returns, the timestamp field of the
\* identifier and the value stored in last_time_value are the clock reading
\* of the call or that reading plus 1, and are plus 1 only when the call
\* exhausted the counter (it read a clock not later than last_time_value
\* with counter = counter_mask); the timestamp is never behind the reading
\* and never more than one millisecond ahead of it.
C15_TimestampTracksClock ==
    [][\A f \in Factories :
        (built[f] /\ CreateStep(f) /\ ~call'[f].panic) =>
            LET reading   == call'[f].clock
                emitted   == TimeField(call'[f].id)
                stored    == fac'[f].last_time_value
                exhausted == /\ reading <= fac[f].last_time_value
                             /\ fac[f].counter = fac[f].counter_mask
            IN /\ emitted \in {reading, reading + 1}
               /\ stored \in {reading, reading + 1}
               /\ emitted = reading + 1 => exhausted
               /\ stored = reading + 1 => exhausted
               /\ emitted >= reading
               /\ emitted - reading <= 1]_vars

\* C16 (SpecBeside).  Configuration is immutable: a create call, through any
\* branch, leaves node_bits, counter_bits, counter_mask, node_mask and node
\* of its factory as they were and changes at most counter and
\* last_time_value; it changes nothing of any other factory.
C16_ConfigurationImmutable ==
    [][\A f \in Factories :
        CreateStep(f) =>
            /\ fac'[f].node_bits = fac[f].node_bits
            /\ fac'[f].counter_bits = fac[f].counter_bits
            /\ fac'[f].counter_mask = fac[f].counter_mask
            /\ fac'[f].node_mask = fac[f].node_mask
            /\ fac'[f].node = fac[f].node
            /\ fac'[f] = [fac[f] EXCEPT !.counter = fac'[f].counter,
                                        !.last_time_value = fac'[f].last_time_value]
            /\ \A g \in Factories \ {f} :
                   fac'[g] = fac[g] /\ built'[g] = built[g]]_vars

\* Creates ran on each of two built factories with a node field, more than
\* one on the first, whose last one went through the exhaustion branch and
\* moved its counter and last_time_value.
C16_Witness ==
    /\ built[1] /\ built[2]
    /\ Returned(1) /\ Returned(2)
    /\ calls[1] >= 2
    /\ call[1].carry
    /\ fac[1].node_bits > 0 /\ fac[1].node > 0
    /\ fac[1].last_time_value # fac[2].last_time_value

\* C12 (SpecDefault).  A factory from new() or default() is the factory
\* with_node_bits(0, 0) builds: node_bits 0, counter_bits 22, counter_mask
\* 0x3FFFFF, node_mask 0, node 0, and just after construction it equals
\* with_node_bits(0, 0) for the same draw and clock reading; every
\* identifier it creates is time*2^22 + counter, with no node field.
C12_ZeroArgConstructors ==
    built[1] =>
        /\ fac[1].node_bits = 0
        /\ fac[1].counter_bits = 22
        /\ fac[1].counter_mask = 4194303
        /\ fac[1].node_mask = 0
        /\ fac[1].node = 0
        /\ call[1].op = "new" =>
               \E draw \in Draws(4194303) :
                   fac[1] = with_node_bits(0, 0, draw, call[1].clock)
        /\ Returned(1) =>
               /\ call[1].id = fac[1].last_time_value * 4194304 + fac[1].counter
               /\ call[1].id \div 4194304 = fac[1].last_time_value
               /\ call[1].id % 4194304 = fac[1].counter

\* A factory from a zero-argument constructor has returned, after an
\* earlier create, an identifier with a time and a counter above 0.
C12_Witness ==
    /\ Returned(1) /\ calls[1] >= 2
    /\ fac[1].node_bits = 0
    /\ fac[1].last_time_value > 0 /\ fac[1].counter > 0

\* Both callers have returned from create, having read the clock reading
\* the factory was built at (a stalled clock), neither through the
\* exhaustion branch.
BothReturnedStalled ==
    \A c \in Callers :
        /\ thread[c].pc = "done"
        /\ thread[c].clock = call[Shared].clock
        /\ ~thread[c].carry

\* Caller c has returned and was the only one to enter create so far.
RanAlone(c) ==
    /\ thread[c].pc = "done"
    /\ \A d \in Callers \ {c} : thread[d].pc = "idle"

\* What caller c returned and left in the factory is what create returns
\* and leaves, run on the factory as it was built, at the clock reading of
\* the caller.
AsCreate(c) ==
    \E counter \in Draws(fac[Shared].counter_mask), draw \in Draws(fac[Shared].counter_mask) :
        LET self == with_node_bits(fac[Shared].node_bits, fac[Shared].node,
                                   counter, call[Shared].clock)
            out  == create(self, thread[c].clock, draw)
        IN /\ ~out.panic
           /\ out.id = thread[c].id
           /\ out.self = fac[Shared]
           /\ out.carry = thread[c].carry

\* C11 (SpecShared).  create is not atomic: with a stalled clock and no
\* counter exhaustion, two calls on one factory that run one after the
\* other return different identifiers, so two calls return the same
\* identifier only when their statements interleaved; and such an
\* interleaving exists (C11_Witness).  A call that runs alone does what
\* create does as a whole.
C11_DuplicateByInterleaving ==
    /\ (/\ BothReturnedStalled
        /\ \E c, d \in Callers : c # d /\ thread[c].id = thread[d].id)
       => \A c \in Callers : ~thread[c].alone
    /\ \A c \in Callers : RanAlone(c) => AsCreate(c)

\* The interleaving: both callers returned the same identifier at a stalled
\* clock without exhaustion, having loaded the same counter value, and the
\* counter stands one above it although two creates ran (one increment was
\* lost).
C11_Witness ==
    /\ BothReturnedStalled
    /\ \A c, d \in Callers :
           /\ thread[c].id = thread[d].id
           /\ thread[c].loaded = thread[d].loaded
           /\ fac[Shared].counter = thread[c].loaded + 1
    /\ fac[Shared].counter < fac[Shared].counter_mask

\* C17 (SpecSolo).  Every create call that read a clock at or after the
\* epoch completes and returns an identifier within the 8 statements of its
\* longest path, whatever the counter and the clock reading are: a call
\* inside create always has a next statement to execute (it never waits),
\* it panics only on a clock before the epoch, and it never executes more
\* than 8 statements (it never loops).
C17_CreateCompletes ==
    \A c \in Callers :
        /\ thread[c].steps <= 8
        /\ Running(c) => ENABLED Statement(c)
        /\ thread[c].pc = "panicked" => thread[c].clock < 0
        /\ thread[c].pc = "done" => thread[c].id >= 0 /\ thread[c].steps >= 6

\* A create completed through the exhaustion branch in 8 statements, at a
\* clock reading behind the last_time_value the factory was built with (a
\* rollback).
C17_Witness ==
    \E c \in Callers :
        /\ thread[c].pc = "done"
        /\ thread[c].id >= 0
        /\ thread[c].carry
        /\ thread[c].steps = 8
        /\ calls[Shared] = 0
        /\ thread[c].clock < call[Shared].clock

====
